---- MODULE Spec2Model ----
(***************************************************************************)
(* Session Recorder (ClaudeCodeLogger, src/claude_logger.py) and the       *)
(* remote trace/span/score sink it talks to.                               *)
(*                                                                         *)
(* Every handler of the recorder is one action.  The remote sink is an     *)
(* external service: each of its calls may fail, and the trace id it       *)
(* reports is its own choice.  The calls a handler makes are kept, in      *)
(* order, in the variable calls (the calls of the most recent handler).    *)
(***************************************************************************)
EXTENDS Integers, Sequences, FiniteSets, TLC

\* ------------------------------------------------------------ bounds
\* log_interaction is not invoked once interaction_count has reached this.
MaxInteractions == 2
\* Longest tools_used list handed to log_interaction.
MaxTools == 2
\* Largest interaction_count a recorder has when end_session is studied on
\* its own (EndSpec).
MaxCount == 12
\* Longest tools list handed to _calculate_quality_score when it is studied
\* on its own (QualitySpec).
MaxToolCount == 5
\* Longest command line handed to _is_claude_process when it is studied on
\* its own (RecognitionSpec).
MaxCmdLen == 3
\* Deepest working directory (segments below the root) handed to the
\* project-name derivations when they are studied on their own
\* (ProjectSpec).
MaxPathLen == 4

\* ------------------------------------------------------------ values
\* get_current_trace_id() -> optional string: None, or a remote trace id.
NoTrace == "none"
TraceIds == {"t1", "t2"}

UserIds == {"anonymous"}
SessionIds == {"s1"}

\* A (user_id, session_id) pair; NoPair where a payload carries none.
Pair(u, s) == [user_id |-> u, session_id |-> s]
NoPair == Pair("-", "-")

\* Caller-supplied metadata of start_session, seen through the
\* (user_id, session_id) keys it holds: none, or keys of the caller's own.
Metadatas == {NoPair, Pair("other", "s0")}

\* Lengths of the prompt and response texts given to log_interaction.
PromptLens == {50, 51}
ResponseLens == {100, 101}
\* The (prompt, response) texts the recorder is driven with: both short,
\* both long.
Texts == {[plen |-> 50, rlen |-> 100], [plen |-> 51, rlen |-> 101]}

\* len(prompt) and len(response) around the thresholds of
\* _calculate_quality_score.
PromptLengths == {0, 49, 50, 51, 200}
ResponseLengths == {0, 99, 100, 101, 400}

\* Wall-clock seconds between construction and end_session.
Durations == {0, 7}

\* get_trace_url: the trace_id argument (NoTrace: not given), and the
\* environment's LANGFUSE_HOST and LANGFUSE_PROJECT_ID ("default": unset,
\* the fallback of os.getenv).
TraceArgs == {NoTrace, "t1", "custom-trace-456"}
Hosts == {"http://localhost:3001"}
Projects == {"default", "test-project"}
\* f"{host}/project/{project}/traces/{tid}" as its parts; NoUrl: "".
Url(host, project, tid) == <<host, "project", project, "traces", tid>>
NoUrl == <<>>

\* The process table: pids and process creation times.
Pids == {101, 102}
StartTimes == {1, 2}
\* What psutil.process_iter shows of the Claude processes at one poll: the
\* creation time of each pid present.
Snapshots == UNION {[S -> StartTimes] : S \in SUBSET Pids}
NoProcesses == [p \in {} |-> 0]

\* Command-line tokens and process names as psutil reports them.
CmdTokens == {"claude", "--resume", "node", "claude-flow@alpha"}
ProcNames == {"claude", "node", "claude-flow"}
Cmdlines == UNION {[1..n -> CmdTokens] : n \in 0..MaxCmdLen}
\* 'claude-flow' in str(arg)
ContainsClaudeFlow(arg) == arg \in {"claude-flow", "claude-flow@alpha"}

\* Working directories as proc.cwd() reports them: None (present FALSE), or
\* an absolute path given by its segments below the root.  prefix_only: the
\* path's text starts with the text of the home directory although the path
\* does not lie under it (/home/u2/x for the home /home/u).
Segments == {"github", "home", "proj"}
NoDirectory == [present |-> FALSE, segs |-> <<>>, prefix_only |-> FALSE]
WorkingDirectories ==
    {NoDirectory} \cup
    {[present |-> TRUE, segs |-> sg, prefix_only |-> po] :
        sg \in UNION {[1..n -> Segments] : n \in 0..MaxPathLen},
        po \in BOOLEAN}
\* Path(working_directory).parts
PathParts(wd) == <<"/">> \o wd.segs

\* _detect_terminal: a text is prefix + body; Empty is None or "".  What one
\* probe does: it raises, or yields a text.
Text(prefix, body) == [prefix |-> prefix, body |-> body]
Empty == Text("", "")
Raises == [raises |-> TRUE, value |-> Empty]
Yields(text) == [raises |-> FALSE, value |-> text]
\* os.getpid() of the session manager, as text.
ManagerPids == {"4242", "4343", "77"}
\* os.getenv(name): unset or empty, or a value (a raise is allowed for too).
EnvProbe(v) == {Raises, Yields(Empty), Yields(Text("", v))}
\* f"tty_{os.ttyname(sys.stdin.fileno()).split('/')[-1]}": OSError without
\* a terminal.
TtyProbe == {Raises, Yields(Text("tty_", "ttys001"))}

\* _generate_session_id, character by character: project names and short
\* terminal tokens (some holding the separator '_' or digits), timestamps as
\* strftime("%Y%m%d_%H%M%S") renders them, and pids.
ProjectNames == {<<"a">>, <<"a", "_", "1">>, <<"1">>, <<"a", "_", "1", "1">>}
TerminalTokens == {<<"1">>, <<"1", "_", "1">>, <<"s", "_">>}
Timestamps == {<<"2", "0", "2", "6", "0", "1", "0", "1", "_", "0", "0", "0", "0", "0", "1">>,
               <<"2", "0", "2", "6", "0", "1", "0", "1", "_", "0", "0", "0", "0", "1", "1">>}
SnapshotPids == {1, 2, 11, 12, 111}
DigitChars == <<"0", "1", "2", "3", "4", "5", "6", "7", "8", "9">>
\* The processes of one snapshot whose session ids are compared.
IdProcesses ==
    [project_name : ProjectNames, terminal_short : TerminalTokens,
     timestamp : Timestamps, pid : SnapshotPids]

\* What the remote sink does during one handler: fail names the first
\* top-level call that raises ("none": no call raises), tid is what
\* get_current_trace_id() reports.  tid is left NoTrace where the handler
\* never gets to read it, and a failing create_score needs a trace id, or
\* the handler never makes that call.
Sink(fails) ==
    {e \in [fail : fails, tid : TraceIds \cup {NoTrace}] :
        /\ e.fail \in {"open", "assoc", "write", "traceid"} => e.tid = NoTrace
        /\ e.fail = "score" => e.tid # NoTrace}
StartFails == {"none", "open", "assoc", "write", "traceid", "score"}
LogFails == {"none", "open", "assoc", "write", "traceid", "score", "flush"}
\* end_session reads no trace id from the sink.
EndFails == {"none", "open", "assoc", "write", "score", "flush"}
\* Where the sink fails while one tool record is logged on its own.
ToolFails == {"none", "open", "assoc", "write"}
\* The same for a tool record logged inside log_interaction.
NestedToolFails == {"none", "write"}

\* tools_used: one entry per tool record, each with the sink failure that
\* happens while it is logged.
ToolLists == UNION {[1..n -> NestedToolFails] : n \in 0..MaxTools}

\* ------------------------------------------------------------ sink calls
\* One call on the remote sink.  kind: open (start_as_current_span), assoc
\* (update_current_trace), write (update_current_span), traceid
\* (get_current_trace_id), score (create_score), flush, close (span exit).
\* pair: the association sent (assoc) or the pair in the span metadata
\* (write); input: the pair in the span input (write).
Call(kind, span, ok) ==
    [kind |-> kind, span |-> span, ok |-> ok, pair |-> NoPair,
     input |-> NoPair, name |-> "-", trace |-> NoTrace, value |-> 0]

Open(span, ok) == Call("open", span, ok)
Close(span) == Call("close", span, TRUE)
Assoc(span, p, ok) == [Call("assoc", span, ok) EXCEPT !.pair = p]
Write(span, in, meta, ok) ==
    [Call("write", span, ok) EXCEPT !.pair = meta, !.input = in]
TraceId(span, tid, ok) == [Call("traceid", span, ok) EXCEPT !.trace = tid]
Score(span, name, tid, v, ok) ==
    [Call("score", span, ok) EXCEPT !.name = name, !.trace = tid, !.value = v]
Flush(span, ok) == Call("flush", span, ok)

\* ------------------------------------------------------------ control flow
\* A run of sink calls and whether an exception left it.
Skip == [calls |-> <<>>, exc |-> FALSE]
Do(call) == [calls |-> <<call>>, exc |-> ~call.ok]
\* a; b: b runs only if no exception left a.
Then(a, b) ==
    IF a.exc THEN a ELSE [calls |-> a.calls \o b.calls, exc |-> b.exc]
\* with start_as_current_span(name=span): body.  A span that was opened is
\* closed on every exit path; a failed open enters nothing.
WithSpan(span, openOk, body) ==
    IF ~openOk
    THEN Do(Open(span, FALSE))
    ELSE [calls |-> <<Open(span, TRUE)>> \o body.calls \o <<Close(span)>>,
          exc |-> body.exc]

Min(a, b) == IF a < b THEN a ELSE b

\* ------------------------------------------------------------ recorder
VARIABLES
    user_id,            \* self.user_id
    session_id,         \* self.session_id
    interaction_count,  \* self.interaction_count
    current_trace_id,   \* self.current_trace_id (NoTrace: None)
    started,            \* start_session has been invoked on the recorder
    ended,              \* end_session has been invoked on the recorder
    nLog,               \* number of log_interaction invocations so far
    op,                 \* the most recent handler
    args,               \* its arguments
    calls,              \* the sink calls it made, in order
    ret,                \* its return value
    raised              \* whether an exception left it

\* The GlobalClaudeObserver and its main().
VARIABLES
    discovered_processes,   \* self.discovered_processes: pid -> ClaudeProcess
    running,                \* self.running
    registry,               \* the contents of self.registry_file
    pc,                     \* where main() is: "main" (handlers installed,
                            \* monitor_loop not entered), "loop", "exited"
    signalled,              \* a shutdown signal has been delivered
    last                    \* what the most recent poll or cleanup did

rvars == <<user_id, session_id, interaction_count, current_trace_id,
           started, ended, nLog, op, args, calls, ret, raised>>

mvars == <<discovered_processes, running, registry, pc, signalled, last>>

\* The caller of the code under study: the progress of a `with` statement or
\* of quick_log, or the argument and result of a function applied on its own.
VARIABLE probe

NoProbe == [fn |-> "none"]

vars == <<user_id, session_id, interaction_count, current_trace_id,
          started, ended, nLog, op, args, calls, ret, raised,
          discovered_processes, running, registry, pc, signalled, last,
          probe>>

\* The recorder object as the handlers see it.
Self == [user_id |-> user_id, session_id |-> session_id,
         interaction_count |-> interaction_count,
         current_trace_id |-> current_trace_id]

SelfPair(self) == Pair(self.user_id, self.session_id)

\* Arguments of a handler: the text lengths and the number of tool records
\* of log_interaction; NoArgs for the other handlers.
Args(plen, rlen, ntools) ==
    [plen |-> plen, rlen |-> rlen, ntools |-> ntools, duration |-> 0,
     trace_id |-> NoTrace, host |-> "-", project |-> "-"]
NoArgs == Args(0, 0, 0)

\* Return values.  tag: "session_id" (start_session), "interaction" and
\* "interaction_error" (log_interaction), "stats" and "stats_error"
\* (end_session), "url" (get_trace_url), "none" (no value).  interaction_id
\* is f"{session_id}_{interaction_count}": the fields session_id,
\* interaction_no.  average_interaction_time is kept as the fraction
\* average_num / average_den.
Ret(tag) ==
    [tag |-> tag, error |-> FALSE, session_id |-> "-", interaction_no |-> 0,
     trace_id |-> NoTrace, interaction_count |-> 0, total_interactions |-> 0,
     session_duration_seconds |-> 0, average_num |-> 0, average_den |-> 1,
     url |-> NoUrl, score |-> 0]

\* _calculate_quality_score with >= in place of > at both thresholds.
_calculate_quality_score_ge(plen, rlen, ntools) ==
    LET s1 == 5 + (IF plen >= 50 THEN 2 ELSE 0)
        s2 == s1 + (IF rlen >= 100 THEN 2 ELSE 0)
        s3 == s2 + (IF ntools > 0 THEN Min(3, ntools * 1) ELSE 0)
    IN  Min(10, s3)

\* _calculate_quality_score that returns score, not min(1.0, score).
_calculate_quality_score_noclamp(plen, rlen, ntools) ==
    LET s1 == 5 + (IF plen > 50 THEN 2 ELSE 0)
        s2 == s1 + (IF rlen > 100 THEN 2 ELSE 0)
    IN  s2 + (IF ntools > 0 THEN Min(3, ntools * 1) ELSE 0)

\* Scores are kept in tenths: 0.5 is 5, 1.0 is 10.  ntools: len(tools), 0
\* also for tools = None (both fail `if tools:`).
_calculate_quality_score(plen, rlen, ntools) ==
    LET s1 == 5 + (IF plen > 50 THEN 2 ELSE 0)
        s2 == s1 + (IF rlen > 100 THEN 2 ELSE 0)
        s3 == s2 + (IF ntools > 0 THEN Min(3, ntools * 1) ELSE 0)
    IN  Min(10, s3)

\* The tool span with the span data written before the association is sent.
ToolSpan_WriteFirst(self, fail) ==
    WithSpan("tool", fail # "open",
        Then(Do(Write("tool", NoPair, SelfPair(self), fail # "write")),
             Do(Assoc("tool", SelfPair(self), fail # "assoc"))))

\* The body of _log_tool_usage's try block.
ToolSpan(self, fail) ==
    WithSpan("tool", fail # "open",
        Then(Do(Assoc("tool", SelfPair(self), fail # "assoc")),
             Do(Write("tool", NoPair, SelfPair(self), fail # "write"))))

\* _log_tool_usage without its except clause: the exception leaves it.
_log_tool_usage_noexcept(self, fail) == ToolSpan(self, fail)

\* _log_tool_usage: try: ... except Exception: print.
_log_tool_usage(self, fail) ==
    [calls |-> ToolSpan(self, fail).calls, exc |-> FALSE]

\* A tool log that counts as an interaction.
log_tool_usage_counting(self, fail) ==
    [self |-> [self EXCEPT !.interaction_count = @ + 1],
     calls |-> _log_tool_usage(self, fail).calls,
     ret |-> Ret("none"), raised |-> FALSE]

\* ClaudeSessionManager.log_tool_usage on an initialised manager:
\* self.logger_instance._log_tool_usage(tool_info).
log_tool_usage(self, fail) ==
    [self |-> self, calls |-> _log_tool_usage(self, fail).calls,
     ret |-> Ret("none"), raised |-> _log_tool_usage(self, fail).exc]

\* for tool in tools_used: self._log_tool_usage(tool)
RECURSIVE ToolsLoop(_, _)
ToolsLoop(self, tools) ==
    IF tools = <<>> THEN Skip
    ELSE Then(_log_tool_usage(self, Head(tools)), ToolsLoop(self, Tail(tools)))

\* The calls some handler made include a successful call of this kind.
Did(cs, kind) == \E i \in 1..Len(cs) : cs[i].kind = kind /\ cs[i].ok

\* The body of start_session's try block; tid: what
\* get_current_trace_id() reports.  The span input (session_input) holds the
\* recorder's pair; the span metadata is the caller's metadata as given.
SessionSpan(self, md, tid, fail) ==
    LET sp == "claude_code_session"
    IN  WithSpan(sp, fail # "open",
          Then(Do(Assoc(sp, SelfPair(self), fail # "assoc")),
          Then(Do(Write(sp, SelfPair(self), md, fail # "write")),
          Then(Do(TraceId(sp, tid, fail # "traceid")),
               IF tid # NoTrace
               THEN Do(Score(sp, "session_active", tid, 10, fail # "score"))
               ELSE Skip))))

\* start_session that lets the sink's exception through.
start_session_noexcept(self, md, tid, fail) ==
    LET body == SessionSpan(self, md, tid, fail)
    IN  [self |-> [self EXCEPT !.current_trace_id =
                      IF Did(body.calls, "traceid") THEN tid ELSE @],
         calls |-> body.calls,
         ret |-> IF body.exc THEN Ret("none")
                 ELSE [Ret("session_id") EXCEPT !.session_id = self.session_id],
         raised |-> body.exc]

\* start_session that scores the new trace but keeps the trace id it had.
start_session_keepid(self, md, tid, fail) ==
    LET body == SessionSpan(self, md, tid, fail)
    IN  [self |-> self,
         calls |-> body.calls,
         ret |-> [Ret("session_id") EXCEPT !.session_id = self.session_id],
         raised |-> FALSE]

\* start_session(metadata): both exits return self.session_id.
start_session(self, md, tid, fail) ==
    LET body == SessionSpan(self, md, tid, fail)
    IN  [self |-> [self EXCEPT !.current_trace_id =
                      IF Did(body.calls, "traceid") THEN tid ELSE @],
         calls |-> body.calls,
         ret |-> [Ret("session_id") EXCEPT !.session_id = self.session_id],
         raised |-> FALSE]

\* The body of log_interaction's try block, run after the increment.
InteractionSpan(self, plen, rlen, tools, tid, fail) ==
    LET sp == "claude_interaction"
    IN  WithSpan(sp, fail # "open",
          Then(Do(Assoc(sp, SelfPair(self), fail # "assoc")),
          Then(Do([Write(sp, NoPair, SelfPair(self), fail # "write")
                      EXCEPT !.value = self.interaction_count]),
          Then(ToolsLoop(self, tools),
          Then(Do(TraceId(sp, tid, fail # "traceid")),
          Then(IF tid # NoTrace
               THEN Do(Score(sp, "interaction_quality", tid,
                             _calculate_quality_score(plen, rlen, Len(tools)),
                             fail # "score"))
               ELSE Skip,
               Do(Flush(sp, fail # "flush"))))))))

\* What log_interaction returns: the error result from the except clause,
\* the interaction details otherwise.
InteractionResult(self, tid, exc) ==
    LET id == [Ret("interaction") EXCEPT
                  !.session_id = self.session_id,
                  !.interaction_no = self.interaction_count]
    IN  IF exc
        THEN [id EXCEPT !.tag = "interaction_error", !.error = TRUE]
        ELSE [id EXCEPT !.trace_id = tid,
                        !.interaction_count = self.interaction_count]

\* log_interaction that takes the increment back when the sink fails.
log_interaction_rollback(self, plen, rlen, tools, tid, fail) ==
    LET self1 == [self EXCEPT !.interaction_count = @ + 1]
        body == InteractionSpan(self1, plen, rlen, tools, tid, fail)
    IN  [self |-> IF body.exc THEN self ELSE self1,
         calls |-> body.calls,
         ret |-> InteractionResult(self1, tid, body.exc),
         raised |-> FALSE]

\* log_interaction that lets the sink's exception through.
log_interaction_noexcept(self, plen, rlen, tools, tid, fail) ==
    LET self1 == [self EXCEPT !.interaction_count = @ + 1]
        body == InteractionSpan(self1, plen, rlen, tools, tid, fail)
    IN  [self |-> self1,
         calls |-> body.calls,
         ret |-> IF body.exc THEN Ret("none")
                 ELSE InteractionResult(self1, tid, FALSE),
         raised |-> body.exc]

\* log_interaction that increments the count once its span is open.
log_interaction_late(self, plen, rlen, tools, tid, fail) ==
    LET self1 == [self EXCEPT !.interaction_count = @ + 1]
        body == InteractionSpan(self1, plen, rlen, tools, tid, fail)
    IN  [self |-> IF fail = "open" THEN self ELSE self1,
         calls |-> body.calls,
         ret |-> InteractionResult(self1, tid, body.exc),
         raised |-> FALSE]

\* log_interaction that keeps the trace id it read in current_trace_id.
log_interaction_settrace(self, plen, rlen, tools, tid, fail) ==
    LET self1 == [self EXCEPT !.interaction_count = @ + 1]
        body == InteractionSpan(self1, plen, rlen, tools, tid, fail)
    IN  [self |-> IF body.exc THEN self1
                  ELSE [self1 EXCEPT !.current_trace_id = tid],
         calls |-> body.calls,
         ret |-> InteractionResult(self1, tid, body.exc),
         raised |-> FALSE]

\* log_interaction(user_prompt, claude_response, tools_used): the count is
\* incremented before the try block.
log_interaction(self, plen, rlen, tools, tid, fail) ==
    LET self1 == [self EXCEPT !.interaction_count = @ + 1]
        body == InteractionSpan(self1, plen, rlen, tools, tid, fail)
    IN  [self |-> self1,
         calls |-> body.calls,
         ret |-> InteractionResult(self1, tid, body.exc),
         raised |-> FALSE]

\* The session_end span of end_session; meta: the pair in its metadata.
EndSpan(self, meta, fail) ==
    LET sp == "session_end"
    IN  WithSpan(sp, fail # "open",
          Then(Do(Assoc(sp, SelfPair(self), fail # "assoc")),
               Do(Write(sp, NoPair, meta, fail # "write"))))

\* The session score without the clamp.
productivity_score_unclamped(n) == n

\* productivity_score = min(1.0, self.interaction_count / 10.0), in tenths.
productivity_score(n) == Min(10, n)

\* end_session that records the score whether or not a trace id is held.
EndCalls_always_score(self, meta, fail) ==
    Then(EndSpan(self, meta, fail),
    Then(Do(Score("-", "session_productivity", self.current_trace_id,
                  productivity_score(self.interaction_count),
                  fail # "score")),
         Do(Flush("-", fail # "flush"))))

\* The body of end_session's try block: the span, then, outside it, the
\* session_productivity score and the final flush.
EndCalls(self, meta, fail) ==
    Then(EndSpan(self, meta, fail),
    Then(IF self.current_trace_id # NoTrace
         THEN Do(Score("-", "session_productivity", self.current_trace_id,
                       productivity_score(self.interaction_count),
                       fail # "score"))
         ELSE Skip,
         Do(Flush("-", fail # "flush"))))

Max(a, b) == IF a > b THEN a ELSE b

\* The stats computed with duration / self.interaction_count: the division
\* raises for a session without interactions, and the except clause returns
\* the error result.
EndResult_nomax(self, dur, exc) ==
    IF exc \/ self.interaction_count = 0
    THEN [Ret("stats_error") EXCEPT !.error = TRUE]
    ELSE [Ret("stats") EXCEPT
            !.total_interactions = self.interaction_count,
            !.session_duration_seconds = dur,
            !.average_num = dur,
            !.average_den = self.interaction_count]

\* What end_session returns: stats, or the error result.  dur: the seconds
\* since self.start_time.
EndResult(self, dur, exc) ==
    IF exc
    THEN [Ret("stats_error") EXCEPT !.error = TRUE]
    ELSE [Ret("stats") EXCEPT
            !.total_interactions = self.interaction_count,
            !.session_duration_seconds = dur,
            !.average_num = dur,
            !.average_den = Max(1, self.interaction_count)]

\* end_session that lets the sink's exception through.
end_session_noexcept(self, dur, fail) ==
    LET body == EndCalls(self, SelfPair(self), fail)
    IN  [self |-> self, calls |-> body.calls,
         ret |-> IF body.exc THEN Ret("none") ELSE EndResult(self, dur, FALSE),
         raised |-> body.exc]

\* end_session whose span metadata leaves the session association out.
end_session_nopair(self, dur, fail) ==
    LET body == EndCalls(self, NoPair, fail)
    IN  [self |-> self, calls |-> body.calls,
         ret |-> EndResult(self, dur, body.exc), raised |-> FALSE]

\* end_session(summary)
end_session(self, dur, fail) ==
    LET body == EndCalls(self, SelfPair(self), fail)
    IN  [self |-> self, calls |-> body.calls,
         ret |-> EndResult(self, dur, body.exc), raised |-> FALSE]

\* get_trace_url that always formats the recorder's own trace id.
get_trace_url_current(self, trace_id, host, project) ==
    [self |-> self, calls |-> <<>>,
     ret |-> [Ret("url") EXCEPT !.url =
                IF self.current_trace_id # NoTrace
                THEN Url(host, project, self.current_trace_id) ELSE NoUrl],
     raised |-> FALSE]

\* get_trace_url(trace_id): tid = trace_id or self.current_trace_id.
get_trace_url(self, trace_id, host, project) ==
    LET tid == IF trace_id # NoTrace THEN trace_id ELSE self.current_trace_id
    IN  [self |-> self, calls |-> <<>>,
         ret |-> [Ret("url") EXCEPT !.url =
                    IF tid # NoTrace THEN Url(host, project, tid) ELSE NoUrl],
         raised |-> FALSE]

\* How many times a handler was entered, read off its sink calls: every
\* handler begins by opening its span.
Entered(cs, span) ==
    Cardinality({i \in 1..Len(cs) :
                    cs[i].kind = "open" /\ cs[i].span = span})

\* __enter__: self.start_session(); return self.
__enter__(self, tid, fail) == start_session(self, NoPair, tid, fail)

\* __exit__ that returns True.
__exit___suppress(self, dur, fail) ==
    [r |-> end_session(self, dur, fail), suppress |-> TRUE]

\* __exit__(exc_type, exc_val, exc_tb): self.end_session(); it returns None,
\* so the with statement does not suppress the body's exception.
__exit__(self, dur, fail) ==
    [r |-> end_session(self, dur, fail), suppress |-> FALSE]

\* quick_log that never ends the session.
quick_log_noend(self, plen, rlen, tools, dur, s, l, e) ==
    LET a == start_session(self, NoPair, s.tid, s.fail)
        b == log_interaction(a.self, plen, rlen, tools, l.tid, l.fail)
    IN  IF a.raised THEN [a EXCEPT !.ret = Ret("none")]
        ELSE [self |-> b.self, calls |-> a.calls \o b.calls,
              ret |-> IF b.raised THEN Ret("none") ELSE b.ret,
              raised |-> b.raised]

\* quick_log(prompt, response, tools) on the recorder it has constructed:
\* start_session(); result = log_interaction(...); end_session(); return
\* result.  s, l, e: what the sink does during each of the three.
quick_log(self, plen, rlen, tools, dur, s, l, e) ==
    LET a == start_session(self, NoPair, s.tid, s.fail)
        b == log_interaction(a.self, plen, rlen, tools, l.tid, l.fail)
        c == end_session(b.self, dur, e)
    IN  IF a.raised THEN [a EXCEPT !.ret = Ret("none")]
        ELSE IF b.raised
             THEN [self |-> b.self, calls |-> a.calls \o b.calls,
                   ret |-> Ret("none"), raised |-> TRUE]
             ELSE [self |-> c.self,
                   calls |-> a.calls \o b.calls \o c.calls,
                   ret |-> IF c.raised THEN Ret("none") ELSE b.ret,
                   raised |-> c.raised]

\* ---------------------------------------------------- ClaudeSessionManager
\* for method in terminal_methods: the first result that is not empty, from
\* position i on; f"unknown_{self.pid}" after the last.
RECURSIVE FirstResult(_, _, _)
FirstResult(methods, i, pid) ==
    IF i > Len(methods)
    THEN Text("unknown_", pid)
    ELSE IF ~methods[i].raises /\ methods[i].value # Empty
         THEN methods[i].value
         ELSE FirstResult(methods, i + 1, pid)

\* _detect_terminal without its last method, f"pid_{self.pid}".
_detect_terminal_nopid(env, pid) ==
    FirstResult(<<env.TERM_SESSION_ID, env.TMUX_PANE, env.WINDOWID, env.tty>>,
                1, pid)

\* _detect_terminal(): env gives what each of the first four methods does;
\* the fifth, f"pid_{self.pid}", always yields.
_detect_terminal(env, pid) ==
    FirstResult(<<env.TERM_SESSION_ID, env.TMUX_PANE, env.WINDOWID, env.tty,
                  Yields(Text("pid_", pid))>>, 1, pid)

\* ----------------------------------------------------- GlobalClaudeObserver
\* _is_claude_process(cmdline, name)
_is_claude_process(cmdline, name) ==
    IF Len(cmdline) = 0
    THEN FALSE
    ELSE IF /\ cmdline[1] = "claude"
            /\ ~\E i \in 1..Len(cmdline) : ContainsClaudeFlow(cmdline[i])
         THEN TRUE
         ELSE name = "claude"

\* path_parts.index('github'): the first position of the marker.
GithubIdx(parts) ==
    CHOOSE i \in 1..Len(parts) :
        parts[i] = "github" /\ \A j \in 1..(i - 1) : parts[j] # "github"

\* The project name of the session id taken to be the last path part
\* whether or not the marker occurs.
SessionProjectName_last(wd) ==
    IF ~wd.present THEN "unknown"
    ELSE LET path_parts == PathParts(wd)
         IN  IF Len(path_parts) >= 2 THEN path_parts[Len(path_parts)]
             ELSE "unknown"

\* _generate_session_id: the project_name it puts into the session id.
SessionProjectName(wd) ==
    IF ~wd.present
    THEN "unknown"
    ELSE LET path_parts == PathParts(wd)
         IN  IF Len(path_parts) >= 2
             THEN IF \E i \in 1..Len(path_parts) : path_parts[i] = "github"
                  THEN IF Len(path_parts) > GithubIdx(path_parts)
                       THEN path_parts[GithubIdx(path_parts) + 1]
                       ELSE "unknown"
                  ELSE path_parts[Len(path_parts)]
             ELSE "unknown"

\* _extract_project_info(working_directory)["name"].  Both return
\* statements evaluate path.relative_to(Path.home()) when the path's text
\* starts with the home directory's, and that raises for a path that is not
\* under it: the except clause answers "unknown".  Path.name of the root is
\* the empty string.
_extract_project_info(wd) ==
    IF ~wd.present
    THEN "unknown"
    ELSE LET path_parts == PathParts(wd)
             marked == /\ \E i \in 1..Len(path_parts) :
                              path_parts[i] = "github"
                       /\ Len(path_parts) > GithubIdx(path_parts)
         IN  IF wd.prefix_only
             THEN "unknown"
             ELSE IF marked
                  THEN path_parts[GithubIdx(path_parts) + 1]
                  ELSE IF Len(wd.segs) = 0 THEN ""
                       ELSE wd.segs[Len(wd.segs)]

\* str(pid) inside the f-string.
RECURSIVE Digits(_)
Digits(n) ==
    IF n < 10 THEN <<DigitChars[n + 1]>>
    ELSE Digits(n \div 10) \o <<DigitChars[(n % 10) + 1]>>

\* The session id without the pid at its end.
SessionIdText_nopid(p) ==
    <<"c", "l", "a", "u", "d", "e", "_">> \o p.project_name \o <<"_">>
        \o p.terminal_short \o <<"_">> \o p.timestamp

\* _generate_session_id:
\* f"claude_{project_name}_{terminal_short}_{timestamp}_{claude_proc.pid}"
SessionIdText(p) ==
    <<"c", "l", "a", "u", "d", "e", "_">> \o p.project_name \o <<"_">>
        \o p.terminal_short \o <<"_">> \o p.timestamp \o <<"_">>
        \o Digits(p.pid)

\* logger_instance = None
NoLogger == [user_id |-> "-", session_id |-> "-", interaction_count |-> 0,
             current_trace_id |-> NoTrace]

\* ClaudeProcess(pid=..., start_time=...) as discover_claude_processes
\* builds it: no session id, no logger_instance.
ClaudeProcess(pid, start_time) ==
    [pid |-> pid, start_time |-> start_time, session_id |-> "-",
     logger_instance |-> NoLogger]

\* discover_claude_processes(): one fresh ClaudeProcess per pid of the
\* snapshot.
discover_claude_processes(snap) ==
    [p \in DOMAIN snap |-> ClaudeProcess(p, snap[p])]

\* f"claude_{project_name}_{terminal_short}_{timestamp}_{pid}" for a process
\* without working directory on terminal term_{pid}; the timestamp renders
\* start_time.
_generate_session_id(proc) ==
    CASE proc.pid = 101 /\ proc.start_time = 1 -> "claude_unknown_term_101_1_101"
      [] proc.pid = 101 /\ proc.start_time = 2 -> "claude_unknown_term_101_2_101"
      [] proc.pid = 102 /\ proc.start_time = 1 -> "claude_unknown_term_102_1_102"
      [] OTHER -> "claude_unknown_term_102_2_102"

\* How one instrument_process call goes: the ClaudeCodeLogger constructor
\* raises (raise), or the recorder is built and start_session runs against a
\* sink that fails at `fail` and reports trace id `tid`.
InstrumentOutcomes ==
    {[raise |-> TRUE, fail |-> "none", tid |-> NoTrace],
     [raise |-> FALSE, fail |-> "none", tid |-> "t1"],
     [raise |-> FALSE, fail |-> "open", tid |-> NoTrace]}

\* How the sink behaves during an end_session the observer invokes.
ObserverEndFails == {"none", "write"}

\* instrument_process(claude_proc): the bool it returns and the process
\* object as it leaves it.
instrument_process(proc, o) ==
    IF o.raise
    THEN [ok |-> FALSE, proc |-> proc]
    ELSE LET sid == _generate_session_id(proc)
             logger_instance ==
                 [user_id |-> "global_observer", session_id |-> sid,
                  interaction_count |-> 0, current_trace_id |-> NoTrace]
             r == start_session(logger_instance, NoPair, o.tid, o.fail)
         IN  [ok |-> TRUE,
              proc |-> [proc EXCEPT !.session_id = sid,
                                    !.logger_instance = r.self]]

\* One end_session invocation by the observer, as an entry of the log kept
\* in `last`: on which pid's recorder, with which summary, and whether it
\* reported an error.
EndEntry(proc, summary, fail) ==
    [pid |-> proc.pid, summary |-> summary,
     error |-> end_session(proc.logger_instance, 0, fail).ret.error]

Least(S) == CHOOSE p \in S : \A q \in S : p <= q
Without(procs, pid) == [q \in DOMAIN procs \ {pid} |-> procs[q]]

\* The removal of dead processes that keeps a process whose end_session
\* reported an error.
RECURSIVE RemoveDead_keep_failed(_, _, _)
RemoveDead_keep_failed(procs, dead_pids, endf) ==
    IF dead_pids = {}
    THEN [procs |-> procs, ends |-> <<>>]
    ELSE LET pid == Least(dead_pids)
             e == EndEntry(procs[pid], "Process terminated", endf[pid])
             rest == RemoveDead_keep_failed(
                         IF e.error THEN procs ELSE Without(procs, pid),
                         dead_pids \ {pid}, endf)
         IN  [procs |-> rest.procs, ends |-> <<e>> \o rest.ends]

\* monitor_loop, "Remove dead processes": for each dead pid, end_session on
\* its recorder if it has one (exceptions swallowed), then del.
RECURSIVE RemoveDead(_, _, _)
RemoveDead(procs, dead_pids, endf) ==
    IF dead_pids = {}
    THEN [procs |-> procs, ends |-> <<>>]
    ELSE LET pid == Least(dead_pids)
             ends == IF procs[pid].logger_instance # NoLogger
                     THEN <<EndEntry(procs[pid], "Process terminated",
                                     endf[pid])>>
                     ELSE <<>>
             rest == RemoveDead(Without(procs, pid), dead_pids \ {pid}, endf)
         IN  [procs |-> rest.procs, ends |-> ends \o rest.ends]

\* The new processes taken to be every process of the snapshot.
NewPids_all(procs, current, failed) == DOMAIN current

\* The new processes without those whose instrumentation failed at the
\* previous poll.
NewPids_skip_failed(procs, current, failed) ==
    {p \in DOMAIN current : p \notin DOMAIN procs /\ p \notin failed}

\* The new processes taken to include a tracked pid whose process in the
\* snapshot has another start_time.
NewPids_by_start_time(procs, current, failed) ==
    {p \in DOMAIN current :
        p \notin DOMAIN procs \/ procs[p].start_time # current[p].start_time}

\* The new processes taken to include the tracked ones that have no
\* recorder.
NewPids_uninstrumented(procs, current, failed) ==
    {p \in DOMAIN current :
        p \notin DOMAIN procs \/ procs[p].logger_instance = NoLogger}

\* monitor_loop, "Add new processes": the processes of the snapshot with
\* `proc.pid not in self.discovered_processes`.  failed: the pids whose
\* instrumentation failed at the previous poll, of which the code keeps no
\* record.
NewPids(procs, current, failed) ==
    {p \in DOMAIN current : p \notin DOMAIN procs}

\* The loop over the new processes abandoned at the first one whose
\* instrumentation fails.
AddNew_abort_on_failure(new, res) ==
    {p \in new : \A q \in new : q <= p => res[q].ok}

\* monitor_loop, "Add new processes": each new process is instrumented in
\* turn and stored when instrument_process returned True.  res: the outcome
\* of instrument_process for each new pid.
AddNew(new, res) == {p \in new : res[p].ok}

\* cleanup(): end_session("Observer shutdown") on every recorder held.
RECURSIVE cleanup(_, _, _)
cleanup(procs, pids, endf) ==
    IF pids = {}
    THEN <<>>
    ELSE LET pid == Least(pids)
             ends == IF procs[pid].logger_instance # NoLogger
                     THEN <<EndEntry(procs[pid], "Observer shutdown",
                                     endf[pid])>>
                     ELSE <<>>
         IN  ends \o cleanup(procs, pids \ {pid}, endf)

\* save_registry(): what json.dump writes.
registry_data(procs) ==
    [p \in DOMAIN procs |->
        [session_id |-> procs[p].session_id,
         start_time |-> procs[p].start_time,
         instrumented |-> procs[p].logger_instance # NoLogger]]

\* The registry file updated entry by entry: the entries of the pids no
\* longer tracked are left in it.
save_registry_merge(procs, file, saved) ==
    IF saved
    THEN [p \in DOMAIN file \cup DOMAIN procs |->
            IF p \in DOMAIN procs THEN registry_data(procs)[p] ELSE file[p]]
    ELSE file

\* save_registry(): the contents of the registry file after the call.
\* open(self.registry_file, 'w') and json.dump replace the contents by
\* registry_data; when they raise, the exception is logged and the file is
\* as it was.
save_registry(procs, file, saved) ==
    IF saved THEN registry_data(procs) ELSE file

\* The outcome of the last save_registry call, as Poll notes it in probe.
Saved(saved) == [fn |-> "save_registry", saved |-> saved]

\* The record kept of one poll or cleanup.
Step(kind, before, snapshot, ends, attempted, failed, prevFailed) ==
    [kind |-> kind, before |-> before, snapshot |-> snapshot, ends |-> ends,
     attempted |-> attempted, failed |-> failed, prevFailed |-> prevFailed]
NoStep == Step("none", NoProcesses, NoProcesses, <<>>, {}, {}, {})

\* ------------------------------------------------------------ actions
\* The handler named o ran with outcome r.
Ran(o, a, r) ==
    /\ user_id' = r.self.user_id
    /\ session_id' = r.self.session_id
    /\ interaction_count' = r.self.interaction_count
    /\ current_trace_id' = r.self.current_trace_id
    /\ op' = o
    /\ args' = a
    /\ calls' = r.calls
    /\ ret' = r.ret
    /\ raised' = r.raised
    /\ UNCHANGED mvars
    /\ UNCHANGED probe

\* GlobalClaudeObserver.__init__, and main() up to the installation of the
\* signal handlers.
ObserverInit ==
    /\ discovered_processes = NoProcesses
    /\ running = FALSE
    /\ registry = NoProcesses
    /\ pc = "main"
    /\ signalled = FALSE
    /\ last = NoStep
    /\ probe = NoProbe

\* __init__: the recorder after construction.
Init ==
    /\ ObserverInit
    /\ user_id \in UserIds
    /\ session_id \in SessionIds
    /\ interaction_count = 0
    /\ current_trace_id = NoTrace
    /\ started = FALSE
    /\ ended = FALSE
    /\ nLog = 0
    /\ op = "init"
    /\ args = NoArgs
    /\ calls = <<>>
    /\ ret = Ret("none")
    /\ raised = FALSE

StartSession ==
    \E md \in Metadatas, e \in Sink(StartFails) :
        /\ Ran("start_session", NoArgs, start_session(Self, md, e.tid, e.fail))
        /\ started' = TRUE
        /\ UNCHANGED <<ended, nLog>>

LogInteraction ==
    \E t \in Texts, tools \in ToolLists, e \in Sink(LogFails) :
        /\ interaction_count < MaxInteractions
        /\ Ran("log_interaction", Args(t.plen, t.rlen, Len(tools)),
               log_interaction(Self, t.plen, t.rlen, tools, e.tid, e.fail))
        /\ nLog' = nLog + 1
        /\ UNCHANGED <<started, ended>>

\* _log_tool_usage called on its own (ClaudeSessionManager.log_tool_usage).
LogTool ==
    \E fail \in ToolFails :
        /\ Ran("log_tool", NoArgs, log_tool_usage(Self, fail))
        /\ UNCHANGED <<started, ended, nLog>>

EndSession ==
    \E dur \in Durations, fail \in EndFails :
        /\ Ran("end_session", [NoArgs EXCEPT !.duration = dur],
               end_session(Self, dur, fail))
        /\ ended' = TRUE
        /\ UNCHANGED <<started, nLog>>

GetTraceUrl ==
    \E tid \in TraceArgs, host \in Hosts, project \in Projects :
        /\ Ran("get_trace_url",
               [NoArgs EXCEPT !.trace_id = tid, !.host = host,
                              !.project = project],
               get_trace_url(Self, tid, host, project))
        /\ UNCHANGED <<started, ended, nLog>>

Next ==
    StartSession \/ LogInteraction \/ LogTool \/ EndSession \/ GetTraceUrl

Spec == Init /\ [][Next]_vars

\* end_session on its own, on a started recorder that has logged any number
\* of interactions up to MaxCount.
EndInit ==
    /\ ObserverInit
    /\ user_id \in UserIds
    /\ session_id \in SessionIds
    /\ interaction_count \in 0..MaxCount
    /\ nLog = interaction_count
    /\ current_trace_id \in TraceIds \cup {NoTrace}
    /\ started = TRUE
    /\ ended = FALSE
    /\ op = "init"
    /\ args = NoArgs
    /\ calls = <<>>
    /\ ret = Ret("none")
    /\ raised = FALSE

EndNext == EndSession

\* _calculate_quality_score on its own: it reads nothing of the recorder.
CalculateQualityScore ==
    \E plen \in PromptLengths, rlen \in ResponseLengths,
       ntools \in 0..MaxToolCount :
        /\ op' = "_calculate_quality_score"
        /\ args' = Args(plen, rlen, ntools)
        /\ ret' = [Ret("score") EXCEPT
                      !.score = _calculate_quality_score(plen, rlen, ntools)]
        /\ calls' = <<>>
        /\ raised' = FALSE
        /\ UNCHANGED <<user_id, session_id, interaction_count,
                       current_trace_id, started, ended, nLog>>
        /\ UNCHANGED mvars
        /\ UNCHANGED probe

QualityNext == CalculateQualityScore

QualitySpec == Init /\ [][QualityNext]_vars

\* with ClaudeCodeLogger(...) as logger: body.  The with statement calls
\* __enter__, runs the body, and calls __exit__ whether the body returned
\* or raised; the body's exception goes on to the caller unless __exit__
\* returned a true value (or is replaced by one that __exit__ raises).
With(at, starts, ends, body_raised, propagated) ==
    [fn |-> "with", at |-> at, starts |-> starts, ends |-> ends,
     body_raised |-> body_raised, propagated |-> propagated]

WithInit ==
    /\ user_id \in UserIds
    /\ session_id \in SessionIds
    /\ interaction_count = 0
    /\ current_trace_id = NoTrace
    /\ started = FALSE
    /\ ended = FALSE
    /\ nLog = 0
    /\ op = "init"
    /\ args = NoArgs
    /\ calls = <<>>
    /\ ret = Ret("none")
    /\ raised = FALSE
    /\ discovered_processes = NoProcesses
    /\ running = FALSE
    /\ registry = NoProcesses
    /\ pc = "main"
    /\ signalled = FALSE
    /\ last = NoStep
    /\ probe = With("new", 0, 0, FALSE, FALSE)

WithEnter ==
    /\ probe.at = "new"
    /\ \E e \in Sink(StartFails) :
         \E r \in {__enter__(Self, e.tid, e.fail)} :
            /\ user_id' = r.self.user_id
            /\ session_id' = r.self.session_id
            /\ interaction_count' = r.self.interaction_count
            /\ current_trace_id' = r.self.current_trace_id
            /\ op' = "start_session"
            /\ args' = NoArgs
            /\ calls' = r.calls
            /\ ret' = r.ret
            /\ raised' = r.raised
            /\ probe' = [probe EXCEPT
                            !.at = IF r.raised THEN "done" ELSE "body",
                            !.starts = @ + Entered(r.calls,
                                                   "claude_code_session"),
                            !.propagated = r.raised]
    /\ started' = TRUE
    /\ UNCHANGED <<ended, nLog>>
    /\ UNCHANGED mvars

\* The body logs an interaction.
WithBody ==
    /\ probe.at = "body"
    /\ LogInteraction

\* The body returns or raises, and the with statement calls __exit__.
WithExit ==
    /\ probe.at = "body"
    /\ \E body_raised \in BOOLEAN, dur \in Durations, fail \in EndFails :
         \E x \in {__exit__(Self, dur, fail)} :
            /\ user_id' = x.r.self.user_id
            /\ session_id' = x.r.self.session_id
            /\ interaction_count' = x.r.self.interaction_count
            /\ current_trace_id' = x.r.self.current_trace_id
            /\ op' = "end_session"
            /\ args' = [NoArgs EXCEPT !.duration = dur]
            /\ calls' = x.r.calls
            /\ ret' = x.r.ret
            /\ raised' = x.r.raised
            /\ probe' = [probe EXCEPT
                            !.at = "done",
                            !.ends = @ + Entered(x.r.calls, "session_end"),
                            !.body_raised = body_raised,
                            !.propagated =
                                x.r.raised \/ (body_raised /\ ~x.suppress)]
    /\ ended' = TRUE
    /\ UNCHANGED <<started, nLog>>
    /\ UNCHANGED mvars

WithNext == WithEnter \/ WithBody \/ WithExit

WithSpec == WithInit /\ [][WithNext]_vars

\* _is_claude_process on its own, as discover_claude_processes applies it
\* to each process of the table.
IsClaudeProcess ==
    /\ \E cmdline \in Cmdlines, name \in ProcNames :
         probe' = [fn |-> "_is_claude_process", cmdline |-> cmdline,
                   name |-> name,
                   result |-> _is_claude_process(cmdline, name)]
    /\ UNCHANGED rvars
    /\ UNCHANGED mvars

RecognitionNext == IsClaudeProcess

RecognitionSpec == Init /\ [][RecognitionNext]_vars

\* The two project-name derivations of instrument_process, applied to one
\* working directory.
ProjectName ==
    /\ \E wd \in WorkingDirectories :
         probe' = [fn |-> "project_name", wd |-> wd,
                   session_name |-> SessionProjectName(wd),
                   info_name |-> _extract_project_info(wd)]
    /\ UNCHANGED rvars
    /\ UNCHANGED mvars

ProjectNext == ProjectName

ProjectSpec == Init /\ [][ProjectNext]_vars

\* _detect_terminal on its own.
DetectTerminal ==
    /\ \E a \in EnvProbe("w0t0p0:1A2B"), b \in EnvProbe("%3"),
          c \in EnvProbe("4194311"), d \in TtyProbe, pid \in ManagerPids :
         LET env == [TERM_SESSION_ID |-> a, TMUX_PANE |-> b, WINDOWID |-> c,
                     tty |-> d]
         IN  probe' = [fn |-> "_detect_terminal", env |-> env, pid |-> pid,
                       result |-> _detect_terminal(env, pid)]
    /\ UNCHANGED rvars
    /\ UNCHANGED mvars

TerminalNext == DetectTerminal

TerminalSpec == Init /\ [][TerminalNext]_vars

\* _generate_session_id for two processes of one snapshot (their pids
\* differ).
SessionIdInit ==
    /\ user_id \in UserIds
    /\ session_id \in SessionIds
    /\ interaction_count = 0
    /\ current_trace_id = NoTrace
    /\ started = FALSE
    /\ ended = FALSE
    /\ nLog = 0
    /\ op = "init"
    /\ args = NoArgs
    /\ calls = <<>>
    /\ ret = Ret("none")
    /\ raised = FALSE
    /\ discovered_processes = NoProcesses
    /\ running = FALSE
    /\ registry = NoProcesses
    /\ pc = "main"
    /\ signalled = FALSE
    /\ last = NoStep
    /\ \E p \in IdProcesses, q \in IdProcesses :
          /\ p.pid # q.pid
          /\ probe = [fn |-> "snapshot", p |-> p, q |-> q]

GenerateSessionIds ==
    /\ probe.fn = "snapshot"
    /\ probe' = [fn |-> "_generate_session_id", p |-> probe.p, q |-> probe.q,
                 id_p |-> SessionIdText(probe.p),
                 id_q |-> SessionIdText(probe.q)]
    /\ UNCHANGED rvars
    /\ UNCHANGED mvars

SessionIdNext == GenerateSessionIds

SessionIdSpec == SessionIdInit /\ [][SessionIdNext]_vars

\* quick_log, called once: the recorder variables show the recorder it
\* constructed, calls the sink calls of the whole function.
QuickLog ==
    /\ op = "init"
    /\ \E t \in Texts, tools \in ToolLists, dur \in Durations,
          s \in Sink(StartFails), l \in Sink(LogFails), e \in EndFails :
         \E r \in {quick_log(Self, t.plen, t.rlen, tools, dur, s, l, e)} :
            /\ user_id' = r.self.user_id
            /\ session_id' = r.self.session_id
            /\ interaction_count' = r.self.interaction_count
            /\ current_trace_id' = r.self.current_trace_id
            /\ op' = "quick_log"
            /\ args' = [Args(t.plen, t.rlen, Len(tools))
                           EXCEPT !.duration = dur]
            /\ calls' = r.calls
            /\ ret' = r.ret
            /\ raised' = r.raised
    /\ started' = TRUE
    /\ ended' = TRUE
    /\ nLog' = 1
    /\ UNCHANGED mvars
    /\ UNCHANGED probe

QuickLogNext == QuickLog

QuickLogSpec == Init /\ [][QuickLogNext]_vars

\* Several ClaudeCodeLogger instances held by one caller (the observer
\* creates one per process it instruments).  probe holds the instances, the
\* instance the last handler ran on, the handler, and the instances as they
\* were before it ran.
InstanceIds == {1, 2}
NewInstances ==
    [InstanceIds -> [user_id : UserIds, session_id : SessionIds,
                     interaction_count : {0}, current_trace_id : {NoTrace}]]
Instances(recs, who, how, before) ==
    [fn |-> "instances", recs |-> recs, who |-> who, how |-> how,
     before |-> before]

\* interaction_count kept as an attribute of the class: an assignment
\* through one instance is seen through every instance.
Assign_class_attribute(recs, i, r) ==
    [j \in DOMAIN recs |->
        IF j = i THEN r.self
        ELSE [recs[j] EXCEPT
                 !.interaction_count = r.self.interaction_count]]

\* The instances after a handler ran on instance i with outcome r: every
\* attribute the handlers assign is an attribute of self, created by
\* __init__ for that instance (user_id, session_id, interaction_count,
\* current_trace_id), and langfuse is a client the instance builds itself.
Assign(recs, i, r) == [recs EXCEPT ![i] = r.self]

InstancesInit ==
    /\ user_id \in UserIds
    /\ session_id \in SessionIds
    /\ interaction_count = 0
    /\ current_trace_id = NoTrace
    /\ started = FALSE
    /\ ended = FALSE
    /\ nLog = 0
    /\ op = "init"
    /\ args = NoArgs
    /\ calls = <<>>
    /\ ret = Ret("none")
    /\ raised = FALSE
    /\ discovered_processes = NoProcesses
    /\ running = FALSE
    /\ registry = NoProcesses
    /\ pc = "main"
    /\ signalled = FALSE
    /\ last = NoStep
    /\ \E recs \in NewInstances : probe = Instances(recs, 0, "init", recs)

\* The handler `how` ran on instance i with outcome r.
RanOn(i, how, r) ==
    /\ probe' = Instances(Assign(probe.recs, i, r), i, how, probe.recs)
    /\ UNCHANGED rvars
    /\ UNCHANGED mvars

StartOn ==
    \E i \in InstanceIds, e \in Sink({"none", "open", "score"}) :
        RanOn(i, "start_session",
              start_session(probe.recs[i], NoPair, e.tid, e.fail))

LogInteractionOn ==
    \E i \in InstanceIds, e \in Sink({"none", "write"}) :
        /\ probe.recs[i].interaction_count < MaxInteractions
        /\ RanOn(i, "log_interaction",
                 log_interaction(probe.recs[i], 10, 10, <<>>, e.tid, e.fail))

LogToolOn ==
    \E i \in InstanceIds, fail \in ToolFails :
        RanOn(i, "log_tool", log_tool_usage(probe.recs[i], fail))

EndOn ==
    \E i \in InstanceIds, fail \in {"none", "write"} :
        RanOn(i, "end_session", end_session(probe.recs[i], 0, fail))

InstancesNext == StartOn \/ LogInteractionOn \/ LogToolOn \/ EndOn

InstancesSpec == InstancesInit /\ [][InstancesNext]_vars

\* ClaudeSessionManager around one recorder.  probe holds the manager:
\* where the main thread is (new: before the constructor; idle: between
\* calls; ending: inside the logger_instance.end_session call of
\* end_session), whether self.logger_instance is set, whether the cleanup
\* handlers are installed, how many times logger_instance.end_session has
\* been invoked and whether one of them reported an error; and, for the last
\* manager method entered: whether logger_instance was set when it was
\* entered, and interaction_count and ends as they were then.
Manager(at, logger, handlers, ends, end_failed, had, count, ends0) ==
    [fn |-> "manager", at |-> at, logger |-> logger, handlers |-> handlers,
     ends |-> ends, end_failed |-> end_failed, had |-> had, count |-> count,
     ends0 |-> ends0]

\* {"error": "Session not initialized"}
NotInitialized == [Ret("not_initialized") EXCEPT !.error = TRUE]

\* A method that returns `ret` without touching the recorder or the sink.
Nothing(self, r) ==
    [self |-> self, calls |-> <<>>, ret |-> r, raised |-> FALSE]

\* ClaudeSessionManager.log_interaction without its test of
\* self.logger_instance.
manager_log_interaction_unguarded(has, self, plen, rlen, tools, tid, fail) ==
    log_interaction(self, plen, rlen, tools, tid, fail)

\* ClaudeSessionManager.log_interaction.  has: self.logger_instance is set;
\* self: the recorder it refers to.
manager_log_interaction(has, self, plen, rlen, tools, tid, fail) ==
    IF ~has
    THEN Nothing(self, NotInitialized)
    ELSE log_interaction(self, plen, rlen, tools, tid, fail)

\* ClaudeSessionManager.log_tool_usage
manager_log_tool_usage(has, self, fail) ==
    IF ~has THEN Nothing(self, Ret("none")) ELSE log_tool_usage(self, fail)

\* ClaudeSessionManager.get_trace_url: None without a recorder, otherwise
\* the recorder's get_trace_url().
manager_get_trace_url(has, self, host, project) ==
    IF ~has
    THEN Nothing(self, Ret("none"))
    ELSE get_trace_url(self, NoTrace, host, project)

\* ClaudeSessionManager.end_session, the call it makes and what it returns;
\* its finally clause clears self.logger_instance.
manager_end_session(has, self, dur, fail) ==
    IF ~has THEN Nothing(self, Ret("none")) ELSE end_session(self, dur, fail)

ManagerInit ==
    /\ user_id \in UserIds
    /\ session_id \in SessionIds
    /\ interaction_count = 0
    /\ current_trace_id = NoTrace
    /\ started = FALSE
    /\ ended = FALSE
    /\ nLog = 0
    /\ op = "init"
    /\ args = NoArgs
    /\ calls = <<>>
    /\ ret = Ret("none")
    /\ raised = FALSE
    /\ discovered_processes = NoProcesses
    /\ running = FALSE
    /\ registry = NoProcesses
    /\ pc = "main"
    /\ signalled = FALSE
    /\ last = NoStep
    /\ probe = Manager("new", FALSE, FALSE, 0, FALSE, FALSE, 0, 0)

\* The manager method named o ran on the recorder with outcome r and left
\* the manager as m.
ManagerRan(o, r, m) ==
    /\ user_id' = r.self.user_id
    /\ session_id' = r.self.session_id
    /\ interaction_count' = r.self.interaction_count
    /\ current_trace_id' = r.self.current_trace_id
    /\ op' = o
    /\ args' = NoArgs
    /\ calls' = r.calls
    /\ ret' = r.ret
    /\ raised' = r.raised
    /\ probe' = m
    /\ UNCHANGED mvars

\* The method entered now: what it finds.
Entering == [probe EXCEPT !.had = probe.logger,
                          !.count = interaction_count,
                          !.ends0 = probe.ends]

\* __init__: without auto-initialisation, or with _auto_initialize failing
\* before the recorder is built, the manager has no recorder and no
\* handler; otherwise the recorder is built and started, and the handlers
\* are installed unless signal.signal raises.
ManagerNew ==
    /\ probe.at = "new"
    /\ \/ /\ ManagerRan("init", Nothing(Self, Ret("none")),
                        [Entering EXCEPT !.at = "idle"])
          /\ UNCHANGED <<started, ended, nLog>>
       \/ \E e \in Sink({"none", "open", "score"}), h \in BOOLEAN :
             /\ ManagerRan("start_session",
                           start_session(Self, NoPair, e.tid, e.fail),
                           [Entering EXCEPT !.at = "idle", !.logger = TRUE,
                                            !.handlers = h])
             /\ started' = TRUE
             /\ UNCHANGED <<ended, nLog>>

ManagerLogInteraction ==
    /\ probe.at = "idle"
    /\ interaction_count < MaxInteractions
    /\ \E tools \in ToolLists, e \in Sink({"none", "write"}) :
          ManagerRan("log_interaction",
                     manager_log_interaction(probe.logger, Self, 50, 100,
                                             tools, e.tid, e.fail),
                     Entering)
    /\ nLog' = IF probe.logger THEN nLog + 1 ELSE nLog
    /\ UNCHANGED <<started, ended>>

ManagerLogTool ==
    /\ probe.at = "idle"
    /\ \E fail \in ToolFails :
          ManagerRan("log_tool",
                     manager_log_tool_usage(probe.logger, Self, fail),
                     Entering)
    /\ UNCHANGED <<started, ended, nLog>>

ManagerGetTraceUrl ==
    /\ probe.at = "idle"
    /\ \E host \in Hosts, project \in Projects :
          ManagerRan("get_trace_url",
                     manager_get_trace_url(probe.logger, Self, host, project),
                     Entering)
    /\ UNCHANGED <<started, ended, nLog>>

\* end_session, called by the program or by __exit__, up to the moment it
\* has entered logger_instance.end_session; without a recorder, the whole
\* call.
ManagerEndSession ==
    /\ probe.at = "idle"
    /\ IF probe.logger
       THEN /\ probe' = [Entering EXCEPT !.at = "ending", !.ends = @ + 1]
            /\ op' = "end_session"
            /\ UNCHANGED <<user_id, session_id, interaction_count,
                           current_trace_id, args, calls, ret, raised>>
            /\ UNCHANGED mvars
       ELSE ManagerRan("end_session",
                       manager_end_session(FALSE, Self, 0, "none"), Entering)
    /\ UNCHANGED <<started, ended, nLog>>

\* logger_instance.end_session returns into end_session, whose finally
\* clause clears self.logger_instance.
ManagerEndReturn ==
    /\ probe.at = "ending"
    /\ \E dur \in Durations, fail \in {"none", "write"} :
         \E r \in {manager_end_session(TRUE, Self, dur, fail)} :
            ManagerRan("end_session", r,
                       [probe EXCEPT !.at = "idle", !.logger = FALSE,
                                     !.end_failed = @ \/ r.ret.error])
    /\ ended' = TRUE
    /\ UNCHANGED <<started, nLog>>

\* SIGINT or SIGTERM with the handlers installed: _cleanup_handler runs
\* end_session to its end on the main thread, between two calls of the
\* program or inside the end_session call in progress.
ManagerSignal ==
    /\ probe.at \in {"idle", "ending"}
    /\ probe.handlers
    /\ \E fail \in {"none", "write"} :
         \E r \in {manager_end_session(probe.logger, Self, 0, fail)} :
            ManagerRan("cleanup_handler", r,
                       [probe EXCEPT
                           !.logger = FALSE,
                           !.ends = IF probe.logger THEN @ + 1 ELSE @,
                           !.end_failed = @ \/ r.ret.error])
    /\ ended' = (ended \/ probe.logger)
    /\ UNCHANGED <<started, nLog>>

ManagerNext ==
    \/ ManagerNew
    \/ ManagerLogInteraction
    \/ ManagerLogTool
    \/ ManagerGetTraceUrl
    \/ ManagerEndSession
    \/ ManagerEndReturn
    \/ ManagerSignal

ManagerSpec == ManagerInit /\ [][ManagerNext]_vars

\* monitor_loop up to its while loop: self.running = True.
EnterLoop ==
    /\ pc = "main"
    /\ running' = TRUE
    /\ pc' = "loop"
    /\ UNCHANGED <<discovered_processes, registry, signalled, last>>
    /\ UNCHANGED rvars
    /\ UNCHANGED probe

\* One iteration of monitor_loop's while loop, sleep included: discover,
\* remove the dead, instrument the new, save the registry.
Poll ==
    /\ pc = "loop"
    /\ running
    /\ \E snap \in Snapshots, saved \in BOOLEAN :
         LET current_processes == discover_claude_processes(snap)
             current_pids == DOMAIN current_processes
             dead_pids == DOMAIN discovered_processes \ current_pids
             prevFailed == IF last.kind = "poll" THEN last.failed ELSE {}
         IN  \E endf \in [dead_pids -> ObserverEndFails] :
             \E rd \in {RemoveDead(discovered_processes, dead_pids, endf)} :
             \E new \in {NewPids(rd.procs, current_processes, prevFailed)} :
             \E o \in [new -> InstrumentOutcomes] :
             \E res \in {[p \in new |->
                            instrument_process(current_processes[p], o[p])]} :
             \E added \in {AddNew(new, res)} :
             \E procs \in {[p \in DOMAIN rd.procs \cup added |->
                               IF p \in added THEN res[p].proc
                               ELSE rd.procs[p]]} :
                /\ discovered_processes' = procs
                /\ registry' = save_registry(procs, registry, saved)
                /\ probe' = Saved(saved)
                /\ last' = Step("poll", discovered_processes, snap, rd.ends,
                                new, {p \in new : ~res[p].ok}, prevFailed)
    /\ UNCHANGED <<running, pc, signalled>>
    /\ UNCHANGED rvars

\* signal_handler(signum, frame), for SIGINT or SIGTERM, at any moment
\* from the installation of the handlers to the end of main().
Signal ==
    /\ pc # "exited"
    /\ running' = FALSE
    /\ signalled' = TRUE
    /\ UNCHANGED <<discovered_processes, registry, pc, last>>
    /\ UNCHANGED rvars
    /\ UNCHANGED probe

\* The while condition found false: cleanup(), and monitor_loop returns.
Exit ==
    /\ pc = "loop"
    /\ ~running
    /\ \E endf \in [DOMAIN discovered_processes -> ObserverEndFails] :
         last' = Step("cleanup", discovered_processes, NoProcesses,
                      cleanup(discovered_processes,
                              DOMAIN discovered_processes, endf),
                      {}, {}, {})
    /\ running' = FALSE
    /\ pc' = "exited"
    /\ UNCHANGED <<discovered_processes, registry, signalled>>
    /\ UNCHANGED rvars
    /\ UNCHANGED probe

\* What the process table shows when status() is called, before any poll:
\* the processes present were all created at the earliest time (a pid can
\* come back with a later creation time at the polls).
StatusSnapshots == {f \in Snapshots : \A p \in DOMAIN f : f[p] = 1}

\* status() called on the observer before monitor_loop: with nothing
\* tracked, every process discovered now is stored as discover built it
\* (no session id, no logger_instance); the returned dictionary changes
\* nothing.
Status ==
    /\ pc = "main"
    /\ \E snap \in StatusSnapshots :
         \E current_processes \in {discover_claude_processes(snap)} :
            /\ discovered_processes' =
                  IF discovered_processes = NoProcesses
                  THEN current_processes
                  ELSE discovered_processes
            /\ last' = Step("status", discovered_processes, snap, <<>>,
                            {}, {}, {})
    /\ UNCHANGED <<running, registry, pc, signalled>>
    /\ UNCHANGED rvars
    /\ UNCHANGED probe

MonitorNext == EnterLoop \/ Poll \/ Signal \/ Exit

MonitorSpec == Init /\ [][MonitorNext]_vars

\* The observer used as an object: status() and then the monitor.
StatusNext == Status \/ EnterLoop \/ Poll \/ Signal \/ Exit

StatusSpec == Init /\ [][StatusNext]_vars

EndSpec == EndInit /\ [][EndNext]_vars

\* ------------------------------------------------------------ properties
\* The recorder's place in the life cycle UNSTARTED -> ACTIVE -> ENDED.  The
\* recorder keeps no state field: the place is read off the handlers that
\* have been invoked on it.
State == IF ended THEN "ENDED" ELSE IF started THEN "ACTIVE" ELSE "UNSTARTED"

Idx(cs) == 1..Len(cs)
\* Some sink call of the handler failed.
SomeFailed(cs) == \E i \in Idx(cs) : ~cs[i].ok
\* Some sink call made outside the logging of a tool record failed.
TopFailed(cs) == \E i \in Idx(cs) : ~cs[i].ok /\ cs[i].span # "tool"
\* The handler opened a span of this name.
Opened(cs, span) ==
    \E i \in Idx(cs) : cs[i].kind = "open" /\ cs[i].span = span /\ cs[i].ok
\* The handler recorded (or tried to record) a score of this name.
Scored(cs, name) ==
    \E i \in Idx(cs) : cs[i].kind = "score" /\ cs[i].name = name
RecorderPair == Pair(user_id, session_id)

\* C1: after any sequence of N log_interaction calls, whichever sink calls
\* failed, interaction_count equals N.
C1_CountEqualsCalls == interaction_count = nLog

C1_Witness ==
    /\ State = "ACTIVE"
    /\ nLog = 2
    /\ op = "log_interaction"
    /\ ret.error

\* C2: log_interaction and _log_tool_usage on a recorder that is UNSTARTED
\* or ENDED are no-ops: interaction_count is unchanged, no span is opened,
\* no score is recorded, and log_interaction returns an error result.
C2_InactiveIsNoOp ==
    [][(State # "ACTIVE" /\ op' \in {"log_interaction", "log_tool"})
        => /\ interaction_count' = interaction_count
           /\ \A i \in Idx(calls') : calls'[i].kind \notin {"open", "score"}
           /\ (op' = "log_interaction" => ret'.error)]_vars

\* C3: of two end_session calls in a row on a started recorder, the second
\* neither opens a second session_end span nor records a second
\* session_productivity score.
C3_SecondEndIsNoOp ==
    [][(started /\ op = "end_session" /\ op' = "end_session")
        => /\ ~(Opened(calls, "session_end") /\ Opened(calls', "session_end"))
           /\ ~(Scored(calls, "session_productivity")
                /\ Scored(calls', "session_productivity"))]_vars

\* C4 as claimed: every score recorded for a started recorder carries the
\* trace id that start_session stored in current_trace_id.
C4_ScoresCarryCurrentTrace ==
    (started /\ current_trace_id # NoTrace) =>
        \A i \in Idx(calls) :
            calls[i].kind = "score" => calls[i].trace = current_trace_id

\* C4 as amended: session_active and session_productivity scores carry the
\* trace id held in current_trace_id; an interaction_quality score carries
\* the trace id the sink reported during that log_interaction call, the one
\* returned as trace_id.
C4_ScoreTraces ==
    \A i \in Idx(calls) :
        calls[i].kind = "score" =>
            /\ calls[i].trace # NoTrace
            /\ calls[i].name \in {"session_active", "session_productivity"}
                  => calls[i].trace = current_trace_id
            /\ calls[i].name = "interaction_quality"
                  => /\ \E j \in 1..(i - 1) :
                           /\ calls[j].kind = "traceid"
                           /\ calls[j].trace = calls[i].trace
                     /\ ~ret.error => ret.trace_id = calls[i].trace

C4_Witness ==
    /\ State = "ACTIVE"
    /\ op = "log_interaction"
    /\ current_trace_id # NoTrace
    /\ \E i \in Idx(calls) :
          /\ calls[i].kind = "score" /\ calls[i].ok
          /\ calls[i].trace # current_trace_id

\* C5: in every handler, the call that follows the opening of a span is the
\* association call for that span with the recorder's pair, and span data is
\* written only right after that call succeeded.
C5_AssociationAfterOpenBeforeWrite ==
    \A i \in Idx(calls) :
        /\ (calls[i].kind = "open" /\ calls[i].ok)
              => /\ i < Len(calls)
                 /\ calls[i + 1].kind = "assoc"
                 /\ calls[i + 1].span = calls[i].span
                 /\ calls[i + 1].pair = RecorderPair
        /\ calls[i].kind = "write"
              => /\ i > 1
                 /\ calls[i - 1].kind = "assoc"
                 /\ calls[i - 1].ok
                 /\ calls[i - 1].span = calls[i].span

C5_Witness ==
    /\ op = "log_interaction"
    /\ \E i, j \in Idx(calls) :
          /\ calls[i].kind = "write" /\ calls[i].span = "claude_interaction"
          /\ calls[j].kind = "write" /\ calls[j].span = "tool" /\ calls[j].ok

\* C6 as claimed: the pair never changes, and every association call and
\* every span metadata carries it.
C6_PairInEveryMetadata ==
    [][/\ user_id' = user_id
       /\ session_id' = session_id
       /\ \A i \in Idx(calls') :
             calls'[i].kind \in {"assoc", "write"}
                => calls'[i].pair = RecorderPair]_vars

\* C6 as amended: the pair never changes; every association call carries
\* it, and every span write carries it in its metadata, or, for the span of
\* start_session, whose metadata is the caller's, in its input.
C6_PairInEveryEvent ==
    [][/\ user_id' = user_id
       /\ session_id' = session_id
       /\ \A i \in Idx(calls') :
             /\ calls'[i].kind = "assoc" => calls'[i].pair = RecorderPair
             /\ calls'[i].kind = "write" =>
                   IF calls'[i].span = "claude_code_session"
                   THEN calls'[i].input = RecorderPair
                   ELSE calls'[i].pair = RecorderPair]_vars

C6_Witness ==
    /\ op = "start_session"
    /\ \E i \in Idx(calls) :
          /\ calls[i].kind = "write" /\ calls[i].ok
          /\ calls[i].pair # RecorderPair
          /\ calls[i].input = RecorderPair

\* C7 as claimed: log_interaction never raises; if any sink call made during
\* it fails, the result holds the interaction_id and an error field, and the
\* count keeps the incremented value.
C7_AnyFailureGivesError ==
    op = "log_interaction" =>
        /\ ~raised
        /\ ret.session_id = session_id
        /\ ret.interaction_no = interaction_count
        /\ interaction_count = nLog
        /\ SomeFailed(calls) => ret.error

\* C7 as amended: the error result is returned exactly when a sink call made
\* outside the logging of a tool record fails.
C7_TopFailureGivesError ==
    op = "log_interaction" =>
        /\ ~raised
        /\ ret.session_id = session_id
        /\ ret.interaction_no = interaction_count
        /\ interaction_count = nLog
        /\ TopFailed(calls) <=> ret.error

C7_Witness ==
    /\ op = "log_interaction"
    /\ TopFailed(calls)
    /\ ret.error
    /\ interaction_count = 2

\* C8: start_session never raises and returns self.session_id, whichever
\* sink call failed.
C8_StartReturnsSessionId ==
    op = "start_session" =>
        /\ ~raised
        /\ ret.tag = "session_id"
        /\ ret.session_id = session_id

C8_Witness ==
    /\ op = "start_session"
    /\ SomeFailed(calls)
    /\ current_trace_id = NoTrace

C10_ToolFailureDoesNotAbort ==
    /\ op = "log_tool" => ~raised
    /\ (op = "log_interaction"
        /\ \E i \in Idx(calls) :
              calls[i].kind = "write" /\ calls[i].span = "claude_interaction"
                                      /\ calls[i].ok)
          => /\ Cardinality({i \in Idx(calls) :
                   calls[i].kind = "open" /\ calls[i].span = "tool"})
                = args.ntools
             /\ \E i \in Idx(calls) : calls[i].kind = "traceid"
    /\ (op = "log_interaction" /\ ~TopFailed(calls))
          => /\ ~ret.error
             /\ Did(calls, "flush")
             /\ ret.trace_id # NoTrace
                   => \E i \in Idx(calls) :
                         /\ calls[i].kind = "score" /\ calls[i].ok
                         /\ calls[i].name = "interaction_quality"

C10_Witness ==
    /\ op = "log_interaction"
    /\ args.ntools = 2
    /\ \E i, j \in Idx(calls) :
          /\ i < j
          /\ calls[i].span = "tool" /\ ~calls[i].ok
          /\ calls[j].span = "tool" /\ calls[j].kind = "open"
    /\ Did(calls, "score")
    /\ Did(calls, "flush")
    /\ ~ret.error

\* C17: the session_productivity score that end_session records is
\* min(1.0, interaction_count / 10.0) of the count at that moment (in
\* tenths: the count itself below 10, 10 from 10 on), and no smaller count
\* would have given a larger score.
C17_ProductivityScore ==
    op = "end_session" =>
        \A i \in Idx(calls) :
            (calls[i].kind = "score" /\ calls[i].name = "session_productivity")
              => /\ calls[i].value =
                       (IF interaction_count >= 10 THEN 10
                        ELSE interaction_count)
                 /\ \A m \in 0..interaction_count :
                       productivity_score(m) <= calls[i].value

C17_Witness ==
    /\ op = "end_session"
    /\ interaction_count > 10
    /\ \E i \in Idx(calls) :
          /\ calls[i].kind = "score" /\ calls[i].ok
          /\ calls[i].name = "session_productivity"
          /\ calls[i].value = 10

\* C18: an end_session during which no sink call fails returns stats whose
\* total_interactions is the number of log_interaction calls made, failed
\* ones included, and whose average_interaction_time is
\* session_duration_seconds / max(1, total_interactions): with no
\* interaction the divisor is 1 and the average is the duration.
C18_EndStats ==
    (op = "end_session" /\ ~SomeFailed(calls)) =>
        /\ ret.tag = "stats"
        /\ ~ret.error
        /\ ret.total_interactions = nLog
        /\ ret.session_duration_seconds = args.duration
        /\ ret.average_num = ret.session_duration_seconds
        /\ ret.average_den = (IF nLog = 0 THEN 1 ELSE nLog)

C18_Witness ==
    /\ op = "end_session"
    /\ ~SomeFailed(calls)
    /\ nLog = 0
    /\ args.duration = 7
    /\ ret.tag = "stats"
    /\ ret.average_num = 7
    /\ ret.average_den = 1

\* C19: get_trace_url without an argument on a recorder without a current
\* trace id returns the empty string; with an argument it returns
\* {host}/project/{project}/traces/{argument} whatever the recorder holds;
\* it never calls the sink, never raises and leaves the recorder unchanged.
C19_TraceUrl ==
    [][op' = "get_trace_url"
        => /\ calls' = <<>>
           /\ ~raised'
           /\ UNCHANGED <<user_id, session_id, interaction_count,
                          current_trace_id>>
           /\ (args'.trace_id = NoTrace /\ current_trace_id = NoTrace)
                 => ret'.url = <<>>
           /\ args'.trace_id # NoTrace
                 => ret'.url = <<args'.host, "project", args'.project,
                                 "traces", args'.trace_id>>]_vars

C19_Witness ==
    /\ op = "get_trace_url"
    /\ current_trace_id = "t1"
    /\ args.trace_id = "custom-trace-456"
    /\ args.project = "test-project"
    /\ Len(ret.url) = 5
    /\ ret.url[5] = "custom-trace-456"

\* C20: every log_interaction call and every end_session call flushes the
\* sink before it returns, after the span writes and score writes of that
\* call (stated for the calls on a started recorder that opened their span).
C20_FlushBeforeReturn ==
    (/\ started
     /\ op \in {"log_interaction", "end_session"}
     /\ \E k \in Idx(calls) : calls[k].kind = "open" /\ calls[k].ok) =>
        \E i \in Idx(calls) :
            /\ calls[i].kind = "flush"
            /\ \A j \in Idx(calls) :
                  calls[j].kind \in {"write", "score"} => j < i

\* C15: _calculate_quality_score returns
\* min(1.0, 0.5 + 0.2*[len(prompt) > 50] + 0.2*[len(response) > 100]
\*          + min(0.3, 0.1*len(tools)))
\* (in tenths); a prompt of exactly 50 characters, a response of exactly 100
\* and an absent or empty tool list earn nothing.
C15_QualityFormula ==
    op = "_calculate_quality_score" =>
        LET bp == IF args.plen > 50 THEN 2 ELSE 0
            br == IF args.rlen > 100 THEN 2 ELSE 0
            bt == IF args.ntools < 3 THEN args.ntools ELSE 3
            sum == 5 + bp + br + bt
        IN  /\ ret.score = (IF sum < 10 THEN sum ELSE 10)
            /\ (args.plen = 50 /\ args.rlen = 100 /\ args.ntools = 0)
                  => ret.score = 5

C15_Witness ==
    /\ op = "_calculate_quality_score"
    /\ args.plen = 50
    /\ args.rlen = 100
    /\ args.ntools = 5
    /\ ret.score = 8

\* C16: _calculate_quality_score always lies in [0.5, 1.0], and of two
\* calls the one whose prompt length, response length and tool count are
\* each at least the other's returns at least the other's score.
C16_QualityRangeMonotone ==
    [][op' = "_calculate_quality_score"
        => /\ ret'.score >= 5
           /\ ret'.score <= 10
           /\ (/\ op = "_calculate_quality_score"
               /\ args.plen <= args'.plen
               /\ args.rlen <= args'.rlen
               /\ args.ntools <= args'.ntools)
                 => ret.score <= ret'.score]_vars

C16_Witness ==
    /\ op = "_calculate_quality_score"
    /\ args.plen = 200
    /\ args.rlen = 400
    /\ args.ntools = 4
    /\ ret.score = 10

\* The end_session invocations of the last poll or cleanup on pid's recorder.
EndsOn(pid) == {i \in 1..Len(last.ends) : last.ends[i].pid = pid}

\* C11: a process tracked (with its recorder) after one poll and absent from
\* the snapshot of the next has end_session invoked on its recorder exactly
\* once during that next poll and is removed from discovered_processes,
\* also when the end_session call fails.
C11_DeadProcessEndedOnce ==
    last.kind = "poll" =>
        \A p \in DOMAIN last.before :
            (last.before[p].logger_instance # NoLogger
             /\ p \notin DOMAIN last.snapshot)
              => /\ Cardinality(EndsOn(p)) = 1
                 /\ p \notin DOMAIN discovered_processes

C11_Witness ==
    /\ last.kind = "poll"
    /\ \E p \in DOMAIN last.before :
          /\ p \notin DOMAIN last.snapshot
          /\ \E i \in EndsOn(p) : last.ends[i].error
          /\ p \notin DOMAIN discovered_processes

\* C12: for a tracked process whose pid is in the next snapshot too, that
\* poll makes no instrumentation attempt (no recorder is created or
\* started): its entry, recorder included, stays as it was, poll after poll.
C12_DiscoveryIdempotent ==
    last.kind = "poll" =>
        \A p \in DOMAIN last.before \cap DOMAIN last.snapshot :
            /\ p \notin last.attempted
            /\ p \in DOMAIN discovered_processes
            /\ discovered_processes[p] = last.before[p]

C12_Witness ==
    /\ last.kind = "poll"
    /\ \E p \in DOMAIN last.before \cap DOMAIN last.snapshot :
          /\ discovered_processes[p] = last.before[p]
          /\ \E q \in last.attempted :
                q # p /\ q \in DOMAIN discovered_processes

\* C13: a shutdown signal delivered at any time after the handlers are
\* installed is observed by the poll loop: once it has been delivered, the
\* loop finds self.running false at its next test, and so leaves through
\* cleanup.
C13_SignalObserved == (signalled /\ pc = "loop") => ~running

\* C14 as claimed: a process whose instrumentation failed at one poll and
\* which is still in the snapshot of the next is not instrumented again at
\* that next poll.
C14_FailedNotRetried ==
    last.kind = "poll" =>
        \A p \in last.prevFailed \cap DOMAIN last.snapshot :
            p \notin last.attempted

\* C14 as amended: a process whose instrumentation failed at one poll is not
\* tracked, and if it is still in the snapshot of the next poll its
\* instrumentation is attempted again at that poll; it is tracked from the
\* poll at which the attempt succeeds.
C14_FailedIsRetried ==
    last.kind = "poll" =>
        /\ \A p \in last.failed : p \notin DOMAIN discovered_processes
        /\ \A p \in last.prevFailed \cap DOMAIN last.snapshot :
              /\ p \notin DOMAIN last.before
              /\ p \in last.attempted
              /\ p \in DOMAIN discovered_processes <=> p \notin last.failed

C14_Witness ==
    /\ last.kind = "poll"
    /\ \E p \in last.prevFailed \cap DOMAIN last.snapshot :
          /\ p \in last.attempted
          /\ p \in DOMAIN discovered_processes
          /\ discovered_processes[p].logger_instance # NoLogger

\* C21: a recorder used in a with statement has start_session run once on
\* entry and end_session exactly once on exit, whether the body returned or
\* raised; neither raises, and an exception of the body still reaches the
\* caller (and nothing reaches the caller when the body raised nothing).
C21_ScopedStartEnd ==
    probe.fn = "with" =>
        /\ probe.at = "new" => (probe.starts = 0 /\ probe.ends = 0)
        /\ probe.at = "body" => (probe.starts = 1 /\ probe.ends = 0)
        /\ probe.at = "done"
              => /\ probe.starts = 1
                 /\ probe.ends = 1
                 /\ op = "end_session"
                 /\ ~raised
                 /\ probe.propagated <=> probe.body_raised

C21_Witness ==
    /\ probe.fn = "with"
    /\ probe.at = "done"
    /\ probe.body_raised
    /\ probe.propagated
    /\ probe.ends = 1
    /\ ret.error

\* C22: _is_claude_process accepts a process exactly when its first
\* command-line token is 'claude' and no token contains 'claude-flow', or
\* its reported name is 'claude', whatever its command line is.
C22_RecognitionPredicate ==
    probe.fn = "_is_claude_process" =>
        (probe.result <=>
            \/ /\ Len(probe.cmdline) > 0
               /\ probe.cmdline[1] = "claude"
               /\ \A i \in 1..Len(probe.cmdline) :
                     ~ContainsClaudeFlow(probe.cmdline[i])
            \/ probe.name = "claude")

\* The marker occurs among the segments, and the segment after its first
\* occurrence (Follower, when there is one).
HasMarker(segs) == \E i \in 1..Len(segs) : segs[i] = "github"
FirstMarker(segs) ==
    CHOOSE i \in 1..Len(segs) :
        segs[i] = "github" /\ \A j \in 1..Len(segs) : segs[j] = "github" => i <= j
HasFollower(segs) == HasMarker(segs) /\ FirstMarker(segs) < Len(segs)
Follower(segs) == segs[FirstMarker(segs) + 1]

Usable(m) == ~m.raises /\ m.value # [prefix |-> "", body |-> ""]

\* C24 as claimed: _detect_terminal returns the first non-empty result of
\* the probes terminal session id, pane id, window id, tty name, in that
\* order, skipping a probe that raises or is empty; it returns
\* 'unknown_<pid>' when every one of them raised or was empty; the result
\* is never empty.
C24_TerminalAsClaimed ==
    probe.fn = "_detect_terminal" =>
        LET e == probe.env
        IN  /\ probe.result # [prefix |-> "", body |-> ""]
            /\ probe.result =
                 (IF Usable(e.TERM_SESSION_ID) THEN e.TERM_SESSION_ID.value
                  ELSE IF Usable(e.TMUX_PANE) THEN e.TMUX_PANE.value
                  ELSE IF Usable(e.WINDOWID) THEN e.WINDOWID.value
                  ELSE IF Usable(e.tty) THEN e.tty.value
                  ELSE [prefix |-> "unknown_", body |-> probe.pid])

\* C24 as amended: the same, except that when every one of the four probes
\* raised or was empty the result is 'pid_<pid>'; 'unknown_<pid>' is never
\* returned.
C24_Terminal ==
    probe.fn = "_detect_terminal" =>
        LET e == probe.env
        IN  /\ probe.result # [prefix |-> "", body |-> ""]
            /\ probe.result.prefix # "unknown_"
            /\ probe.result =
                 (IF Usable(e.TERM_SESSION_ID) THEN e.TERM_SESSION_ID.value
                  ELSE IF Usable(e.TMUX_PANE) THEN e.TMUX_PANE.value
                  ELSE IF Usable(e.WINDOWID) THEN e.WINDOWID.value
                  ELSE IF Usable(e.tty) THEN e.tty.value
                  ELSE [prefix |-> "pid_", body |-> probe.pid])

C24_Witness ==
    /\ probe.fn = "_detect_terminal"
    /\ probe.env.TERM_SESSION_ID.raises
    /\ ~probe.env.TMUX_PANE.raises
    /\ ~Usable(probe.env.TMUX_PANE)
    /\ ~Usable(probe.env.WINDOWID)
    /\ probe.env.tty.raises
    /\ probe.result = [prefix |-> "pid_", body |-> "4242"]

\* C25: the session ids derived for two processes of one snapshot, whose
\* pids differ, differ, whatever their project names, terminal tokens and
\* start times are, separators inside names and tokens included.
C25_SessionIdsDiffer ==
    probe.fn = "_generate_session_id" =>
        (probe.p.pid # probe.q.pid => probe.id_p # probe.id_q)

C25_Witness ==
    /\ probe.fn = "_generate_session_id"
    /\ probe.p.pid = 1
    /\ probe.q.pid = 11
    /\ probe.p.project_name = <<"a", "_", "1">>
    /\ probe.q.project_name = <<"a">>
    /\ probe.p.terminal_short = <<"1">>
    /\ probe.q.terminal_short = <<"1", "_", "1">>
    /\ Len(probe.id_p) + 1 = Len(probe.id_q)
    /\ probe.id_p # probe.id_q

\* The position in cs at which the handler with this span was entered.
EnteredAt(cs, span) ==
    CHOOSE i \in 1..Len(cs) : cs[i].kind = "open" /\ cs[i].span = span

\* C26: quick_log runs start_session, then log_interaction with the given
\* prompt, response and tools, then end_session, each exactly once and in
\* that order, on one recorder, and returns the result of log_interaction.
C26_QuickLogSequence ==
    op = "quick_log" =>
        /\ ~raised
        /\ Entered(calls, "claude_code_session") = 1
        /\ Entered(calls, "claude_interaction") = 1
        /\ Entered(calls, "session_end") = 1
        /\ EnteredAt(calls, "claude_code_session")
              < EnteredAt(calls, "claude_interaction")
        /\ EnteredAt(calls, "claude_interaction")
              < EnteredAt(calls, "session_end")
        /\ \A i \in 1..Len(calls) :
              calls[i].kind = "assoc" => calls[i].pair = RecorderPair
        /\ interaction_count = 1
        /\ ret.tag \in {"interaction", "interaction_error"}
        /\ ret.session_id = session_id
        /\ ret.interaction_no = 1
        /\ \A i \in 1..Len(calls) :
              (calls[i].kind = "score"
               /\ calls[i].name = "interaction_quality")
                 => /\ calls[i].value =
                         _calculate_quality_score(args.plen, args.rlen,
                                                  args.ntools)
                    /\ ~ret.error => ret.trace_id = calls[i].trace
        /\ \A i \in 1..Len(calls) :
              (calls[i].kind = "score"
               /\ calls[i].name = "session_productivity")
                 => calls[i].value = 1

C26_Witness ==
    /\ op = "quick_log"
    /\ args.ntools = 2
    /\ ~ret.error
    /\ ret.trace_id = "t2"
    /\ current_trace_id = "t1"
    /\ Scored(calls, "session_productivity")
    /\ Did(calls, "flush")

\* C27: every log_interaction call increments interaction_count before its
\* first sink call and whatever the sink does: after the call the count is
\* the number of calls made, also when the first sink call (opening the
\* span) failed; the interaction number written to the span and the
\* interaction id returned carry the incremented count.
C27_IncrementFirst ==
    op = "log_interaction" =>
        /\ nLog > 0
        /\ interaction_count = nLog
        /\ ret.interaction_no = nLog
        /\ \A i \in 1..Len(calls) :
              (calls[i].kind = "write" /\ calls[i].span = "claude_interaction")
                 => calls[i].value = nLog

C27_Witness ==
    /\ op = "log_interaction"
    /\ Len(calls) = 1
    /\ ~calls[1].ok
    /\ nLog = 2
    /\ interaction_count = 2
    /\ ret.error

\* C28 as claimed: a tool log on its own raises interaction_count by one.
C28_ToolLogIncrements ==
    [][op' = "log_tool" => interaction_count' = interaction_count + 1]_vars

\* C28 as amended: log_interaction raises interaction_count by one; a tool
\* log, start_session, end_session and get_trace_url leave it unchanged; it
\* never decreases.
C28_CountFrame ==
    [][/\ op' = "log_interaction"
            => interaction_count' = interaction_count + 1
       /\ op' \in {"log_tool", "start_session", "end_session",
                   "get_trace_url"}
            => interaction_count' = interaction_count
       /\ interaction_count' >= interaction_count]_vars

C28_Witness ==
    /\ op = "log_tool"
    /\ Opened(calls, "tool")
    /\ ~SomeFailed(calls)
    /\ nLog = 1
    /\ interaction_count = 1

\* The trace id the sink reported to the handler, if it reported one.
Reported(cs) == {cs[i].trace : i \in {j \in 1..Len(cs) :
                                        cs[j].kind = "traceid" /\ cs[j].ok}}

\* C29: only start_session sets current_trace_id: log_interaction, a tool
\* log, end_session and get_trace_url leave it unchanged; start_session
\* stores what the sink reports, and leaves it as it was (absent, on a new
\* recorder) when it fails before the trace id is obtained.
C29_TraceIdFrame ==
    [][/\ op' \in {"log_interaction", "log_tool", "end_session",
                   "get_trace_url"}
            => current_trace_id' = current_trace_id
       /\ op' = "start_session"
            => IF Reported(calls') = {}
               THEN current_trace_id' = current_trace_id
               ELSE Reported(calls') = {current_trace_id'}]_vars

C29_Witness ==
    /\ started
    /\ op = "log_interaction"
    /\ ~ret.error
    /\ ret.trace_id = "t1"
    /\ current_trace_id = NoTrace

\* The session_end span of the handler went through.
EndSpanOk(cs) ==
    /\ Opened(cs, "session_end")
    /\ \A i \in 1..Len(cs) : cs[i].span = "session_end" => cs[i].ok

\* C30 as claimed: end_session records a session_productivity score exactly
\* when the recorder holds a current_trace_id.
C30_ScoreIffTraceId ==
    op = "end_session" =>
        (Scored(calls, "session_productivity")
            <=> current_trace_id # NoTrace)

\* C30 as amended: end_session records a session_productivity score exactly
\* when the recorder holds a current_trace_id and no sink call of the
\* session_end span failed; a recorder without trace id records none; the
\* score comes after the span and before the final flush, which follows
\* unless recording the score failed.
C30_ScoreIffTraceIdAndSpan ==
    op = "end_session" =>
        /\ Scored(calls, "session_productivity")
              <=> (current_trace_id # NoTrace /\ EndSpanOk(calls))
        /\ \A i \in 1..Len(calls) :
              (calls[i].kind = "score"
               /\ calls[i].name = "session_productivity")
                 => /\ calls[i].trace = current_trace_id
                    /\ \A j \in 1..Len(calls) :
                          calls[j].span = "session_end" => j < i
                    /\ \A j \in 1..Len(calls) :
                          calls[j].kind = "flush" => i < j
                    /\ calls[i].ok
                          => \E j \in 1..Len(calls) :
                                calls[j].kind = "flush" /\ i < j

C30_Witness ==
    /\ op = "end_session"
    /\ current_trace_id = "t2"
    /\ interaction_count = 3
    /\ \E i \in 1..Len(calls) :
          /\ calls[i].kind = "score" /\ calls[i].ok
          /\ calls[i].name = "session_productivity"
          /\ calls[i].value = 3
          /\ i < Len(calls)
          /\ calls[Len(calls)].kind = "flush"


\* C31: a process the last poll found new is tracked after that poll only if
\* the start_session of its recorder succeeded: a tracked process's recorder
\* holds the trace id its start obtained, and a process whose start failed
\* at the sink (no trace id) is not in discovered_processes.
C31_TrackedOnlyIfStarted ==
    last.kind = "poll" =>
        \A p \in last.attempted :
            p \in DOMAIN discovered_processes
              => discovered_processes[p].logger_instance.current_trace_id
                    # NoTrace


\* C32: a tracked pid that the next snapshot shows with another start_time
\* (the pid was reused between the polls) is neither ended nor instrumented
\* at that poll: no end_session is invoked on its recorder, no recorder is
\* created for the new process, and the tracked entry of the old process,
\* session included, stays as it was.
C32_PidReuseUnnoticed ==
    last.kind = "poll" =>
        \A p \in DOMAIN last.before \cap DOMAIN last.snapshot :
            last.snapshot[p] # last.before[p].start_time
              => /\ EndsOn(p) = {}
                 /\ p \notin last.attempted
                 /\ p \in DOMAIN discovered_processes
                 /\ discovered_processes[p] = last.before[p]
                 /\ discovered_processes[p].start_time # last.snapshot[p]

C32_Witness ==
    /\ last.kind = "poll"
    /\ \E p \in DOMAIN last.before \cap DOMAIN last.snapshot :
          /\ last.snapshot[p] # last.before[p].start_time
          /\ last.before[p].logger_instance.current_trace_id # NoTrace
          /\ discovered_processes[p] = last.before[p]


\* C33: at a poll where the instrumentation of some new process fails, every
\* new process of the snapshot still has its own instrumentation attempted
\* and is tracked, with its recorder, exactly when its own attempt did not
\* fail; the processes tracked before and still in the snapshot keep their
\* entries, sessions included.
C33_InstrumentFailureIsolated ==
    (last.kind = "poll" /\ last.failed # {}) =>
        /\ last.attempted = DOMAIN last.snapshot \ DOMAIN last.before
        /\ \A q \in last.attempted \ last.failed :
              /\ q \in DOMAIN discovered_processes
              /\ discovered_processes[q].logger_instance # NoLogger
              /\ discovered_processes[q].start_time = last.snapshot[q]
        /\ \A q \in last.failed : q \notin DOMAIN discovered_processes
        /\ \A q \in DOMAIN last.before \cap DOMAIN last.snapshot :
              /\ q \in DOMAIN discovered_processes
              /\ discovered_processes[q] = last.before[q]

C33_Witness ==
    /\ last.kind = "poll"
    /\ \E p \in last.failed, q \in last.attempted :
          /\ p < q
          /\ q \in DOMAIN discovered_processes
          /\ discovered_processes[q].logger_instance.current_trace_id
                # NoTrace


\* C34: at the end of a poll whose save_registry succeeded the registry file
\* holds exactly the tracked set of that moment (its pids are the pids of
\* discovered_processes, with no entry left of a dead process and one for
\* each process just instrumented); whether the save succeeded or failed,
\* the poll completes with the tracked set it computed: the survivors of the
\* previous set and the new processes whose instrumentation returned True.
C34_RegistryIsTrackedSet ==
    (last.kind = "poll" /\ probe.fn = "save_registry") =>
        /\ probe.saved =>
              /\ DOMAIN registry = DOMAIN discovered_processes
              /\ registry = registry_data(discovered_processes)
        /\ DOMAIN discovered_processes =
              (DOMAIN last.before \cap DOMAIN last.snapshot)
                 \cup (last.attempted \ last.failed)

\* A poll that removed a dead process and added a new one wrote both changes
\* to the registry.
C34_Witness ==
    /\ last.kind = "poll"
    /\ probe = Saved(TRUE)
    /\ DOMAIN last.before \ DOMAIN last.snapshot # {}
    /\ last.attempted \ last.failed # {}
    /\ DOMAIN registry = DOMAIN discovered_processes



C36_EndedAtMostOnce ==
    probe.fn = "manager" => probe.ends <= 1


\* C37: a manager method entered while the manager holds no recorder (it
\* was never initialised, or end_session has returned, the recorder's end
\* having succeeded or failed) reaches neither the recorder nor the sink:
\* log_interaction returns the 'Session not initialized' error, the tool log
\* and end_session return nothing, get_trace_url returns no URL;
\* interaction_count is unchanged, no sink call is made, no end_session is
\* invoked on the recorder and the manager still holds no recorder.
C37_NoSessionNoEffect ==
    (/\ probe.fn = "manager"
     /\ ~probe.had
     /\ op \in {"log_interaction", "log_tool", "get_trace_url",
                "end_session"}) =>
        /\ calls = <<>>
        /\ ~raised
        /\ interaction_count = probe.count
        /\ probe.ends = probe.ends0
        /\ ~probe.logger
        /\ probe.at = "idle"
        /\ ret = IF op = "log_interaction" THEN NotInitialized
                 ELSE Ret("none")
        /\ ret.url = NoUrl

\* log_interaction on a manager whose end_session has returned after the
\* recorder's end failed, one interaction having been logged before.
C37_Witness ==
    /\ probe.fn = "manager"
    /\ ~probe.had
    /\ probe.ends = 1
    /\ probe.end_failed
    /\ op = "log_interaction"
    /\ ret = NotInitialized
    /\ interaction_count = 1


\* C38: status() on an observer that tracks nothing stores every process it
\* discovers, without session id and without recorder.  A process tracked
\* without recorder is not instrumented by a poll whose snapshot holds its
\* pid (its entry stays as it is, without recorder); when its pid has left
\* the snapshot the poll removes it without invoking end_session for it, and
\* cleanup invokes no end_session for it either.
C38_StatusEntriesNeverInstrumented ==
    /\ (last.kind = "status" /\ last.before = NoProcesses) =>
          /\ DOMAIN discovered_processes = DOMAIN last.snapshot
          /\ \A p \in DOMAIN discovered_processes :
                discovered_processes[p] = ClaudeProcess(p, last.snapshot[p])
    /\ \A p \in DOMAIN last.before :
          last.before[p].logger_instance = NoLogger =>
             /\ (last.kind = "poll" /\ p \in DOMAIN last.snapshot) =>
                   /\ p \notin last.attempted
                   /\ p \in DOMAIN discovered_processes
                   /\ discovered_processes[p] = last.before[p]
             /\ (last.kind = "poll" /\ p \notin DOMAIN last.snapshot) =>
                   /\ EndsOn(p) = {}
                   /\ p \notin DOMAIN discovered_processes
             /\ last.kind = "cleanup" => EndsOn(p) = {}

\* A poll that instrumented a new process next to one that status() had
\* stored, which stays without recorder.
C38_Witness ==
    /\ last.kind = "poll"
    /\ \E p \in DOMAIN last.before \cap DOMAIN last.snapshot,
          q \in last.attempted :
          /\ last.before[p].logger_instance = NoLogger
          /\ discovered_processes[p].logger_instance = NoLogger
          /\ q \in DOMAIN discovered_processes
          /\ discovered_processes[q].logger_instance # NoLogger


\* C39: for every working directory the project name _generate_session_id
\* puts into the session id equals the project_name that
\* _extract_project_info gives for the start metadata and the tags, also
\* for a path whose last segment is 'github' and for a path of fewer than
\* two parts.
C39_ProjectNamesAgree ==
    probe.fn = "project_name" => probe.session_name = probe.info_name

====
